---- MODULE Spec2Model ----
(***************************************************************************)
(* Model of scripts/conversion_script.py: the run orchestrator main(), the *)
(* backup/restore of required files, the transactional install, the       *)
(* rollback detector and the report reconciliation.                        *)
(*                                                                         *)
(* External collaborators (the package manager, the download, the          *)
(* convert2rhel tool and the files it writes) answer nondeterministically  *)
(* from small sets.                                                        *)
(***************************************************************************)
EXTENDS Integers, Sequences, FiniteSets, TLC

\* ------------------------------------------------------------------ bounds
\* Longest log file (in lines) the tool writes in a run.
MaxLogLen == 4
\* Most message records per action of the structured report.
MaxMessages == 1

\* ------------------------------------------------------- values and files
\* Python's None.
None == "None"
\* A path at which no file exists.
Absent == "absent"

\* The two RequiredFile objects of main(), in the order of required_files.
required_files == <<"gpg_key_file", "c2r_repo">>
Files == {required_files[i] : i \in 1..Len(required_files)}

\* Content written by setup_convert2rhel (the downloaded data).
Downloaded == "downloaded"
\* Contents a path / its ".backup" sibling may hold before the run.
PreRunPath == {Absent, "system file"}
PreRunBackup == {Absent, "earlier backup"}

STATUS_CODE ==
    [SUCCESS |-> 0, INFO |-> 25, WARNING |-> 51,
     SKIP |-> 101, OVERRIDABLE |-> 152, ERROR |-> 202]

\* A level string that is not a key of STATUS_CODE.
UnknownLevel == "NOT_A_LEVEL"

\* ------------------------------------------------------------- log lines
\* Lines are classified by what the code tests on them: equality with the
\* rollback-start marker, containing the report marker, matching the error
\* pattern.
start_of_rollback_section == "WARNING - Abnormal exit! Performing rollback ..."
ReportMarkerLine == "Pre-conversion analysis report"
ErrorLine == "ERROR - could not restore backup"
PlainLine == "INFO - done"

LogLines == {start_of_rollback_section, ReportMarkerLine, ErrorLine, PlainLine}

\* The log file is the list of its stripped lines; a log file that cannot
\* be read is NoLog.
NoLog == <<"<no log file>">>

\* "Pre-conversion analysis report" in s
HasReportMarker(s) == s = ReportMarkerLine

\* DETECT_ERROR_IN_ROLLBACK_PATTERN.match(s)
DETECT_ERROR_IN_ROLLBACK_PATTERN(s) == s = ErrorLine

RECURSIVE SeqsUpTo(_, _)
SeqsUpTo(S, n) ==
    IF n = 0 THEN {<<>>}
    ELSE LET shorter == SeqsUpTo(S, n - 1)
         IN  {q : q \in shorter \cup {Append(r, x) : r \in shorter, x \in S}}

\* filter(p, seq) of Python
RECURSIVE Filter(_, _)
Filter(P(_), s) ==
    IF s = <<>> THEN <<>>
    ELSE IF P(Head(s)) THEN <<Head(s)>> \o Filter(P, Tail(s))
    ELSE Filter(P, Tail(s))

\* Smallest index of s whose element satisfies P, 0 when there is none.
FirstIndex(P(_), s) ==
    IF \E i \in 1..Len(s) : P(s[i])
    THEN CHOOSE i \in 1..Len(s) : P(s[i]) /\ \A j \in 1..(i - 1) : ~P(s[j])
    ELSE 0

\* check_for_inhibitors_in_rollback scanning from the first line of the log
\* when the rollback-start marker is missing.
check_for_inhibitors_in_rollback_from_top(log) ==
    LET IsStart(s) == s = start_of_rollback_section
    IN
    IF log = NoLog
    THEN [raised |-> "", matches |-> <<>>]
    ELSE IF FirstIndex(HasReportMarker, log) = 0
    THEN [raised |-> "IndexError", matches |-> <<>>]
    ELSE LET start_index == FirstIndex(IsStart, log)
             end_index == FirstIndex(HasReportMarker, log)
             actual_data == SubSeq(log, start_index + 1, end_index - 1)
         IN  [raised |-> "",
              matches |-> Filter(DETECT_ERROR_IN_ROLLBACK_PATTERN, actual_data)]

\* check_for_inhibitors_in_rollback on the content of C2R_LOG_FILE.
\* Returns [raised, matches]: raised names the exception that leaves the
\* function ("" when it returns), matches are the joined lines.
check_for_inhibitors_in_rollback(log) ==
    LET IsStart(s) == s = start_of_rollback_section
    IN
    IF log = NoLog
    THEN [raised |-> "", matches |-> <<>>]              \* IOError, caught
    ELSE IF FirstIndex(IsStart, log) = 0
    THEN [raised |-> "", matches |-> <<>>]              \* ValueError, caught
    ELSE IF FirstIndex(HasReportMarker, log) = 0
    THEN [raised |-> "IndexError", matches |-> <<>>]    \* [...][0] on []
    ELSE LET start_index == FirstIndex(IsStart, log)
             end_index == FirstIndex(HasReportMarker, log)
             actual_data == SubSeq(log, start_index + 1, end_index - 1)
         IN  [raised |-> "",
              matches |-> Filter(DETECT_ERROR_IN_ROLLBACK_PATTERN, actual_data)]

\* ------------------------------------------------------ backup / restore
\* _create_or_restore_backup_file restoring with a copy instead of a rename.
_create_or_restore_backup_file_copies(p) ==
    IF p.backup # Absent
    THEN [path |-> p.backup, backup |-> p.backup]
    ELSE IF p.path # Absent
    THEN [path |-> Absent, backup |-> p.path]
    ELSE p

\* _create_or_restore_backup_file on the pair (path, path + ".backup").
_create_or_restore_backup_file(p) ==
    IF p.backup # Absent
    THEN [path |-> p.backup, backup |-> Absent]
    ELSE IF p.path # Absent
    THEN [path |-> Absent, backup |-> p.path]
    ELSE p

\* ------------------------------------------------- structured report file
\* Content of C2R_REPORT_FILE, by what json.load makes of it:
\*   "absent"       the file does not exist
\*   "unparseable"  json.load raises ValueError
\*   "empty"        valid JSON that is falsy ({})
\*   "noactions"    a non-empty object without the key "actions"
\*   "actions"      an object whose "actions" maps ids to {result, messages}
NoReport == [kind |-> "absent", actions |-> <<>>]
EmptyData == [kind |-> "empty", actions |-> <<>>]

\* One result / message record of the report.
Record(id, level) ==
    [id |-> id, level |-> level, description |-> "description of " \o id,
     diagnosis |-> "diagnosis of " \o id,
     remediations |-> "remediations of " \o id]

\* gather_json_report: {} unless the file exists and holds truthy JSON.
gather_json_report(report_file) ==
    IF report_file.kind \in {"absent", "unparseable", "empty"}
    THEN EmptyData
    ELSE report_file

\* Truth value of the dictionary gather_json_report returned.
Truthy(data) == data.kind # "empty"

\* gather_textual_report: "" when C2R_REPORT_TXT_FILE does not exist.
gather_textual_report(txt_file) == IF txt_file = Absent THEN "" ELSE txt_file

\* list.sort(key=STATUS_CODE[...], reverse=True): stable insertion sort.
RECURSIVE InsertDesc(_, _)
InsertDesc(x, s) ==
    IF s = <<>> THEN <<x>>
    ELSE IF STATUS_CODE[Head(s)] >= STATUS_CODE[x]
    THEN <<Head(s)>> \o InsertDesc(x, Tail(s))
    ELSE <<x>> \o s

RECURSIVE SortDesc(_)
SortDesc(s) ==
    IF s = <<>> THEN <<>>
    ELSE InsertDesc(s[Len(s)], SortDesc(SubSeq(s, 1, Len(s) - 1)))

\* The levels map(lambda m: m["level"]) of a list of records.
LevelsOf(records) == [i \in 1..Len(records) |-> records[i].level]

RECURSIVE CombinedLevels(_)
CombinedLevels(actions) ==
    IF actions = <<>> THEN <<>>
    ELSE <<Head(actions).result.level>> \o LevelsOf(Head(actions).messages)
         \o CombinedLevels(Tail(actions))

\* What valid_action_levels[0] raises on an empty list.
RaisesIndexError == "raises IndexError"

\* find_highest_report_level with the sort in ascending order.
find_highest_report_level_ascending(actions) ==
    LET IsValid(level) == level \in DOMAIN STATUS_CODE
        valid_action_levels == SortDesc(Filter(IsValid, CombinedLevels(actions)))
    IN  IF valid_action_levels = <<>> THEN RaisesIndexError
        ELSE valid_action_levels[Len(valid_action_levels)]

find_highest_report_level(actions) ==
    LET IsValid(level) == level \in DOMAIN STATUS_CODE
        valid_action_levels == SortDesc(Filter(IsValid, CombinedLevels(actions)))
    IN  IF valid_action_levels = <<>> THEN RaisesIndexError
        ELSE valid_action_levels[1]

MsgConverted ==
    "No problems found. The system was converted successfully. Please, reboot your system at your earliest convenience to make sure that the system is using the RHEL Kernel."
MsgCannotProceed ==
    "The conversion cannot proceed. You must resolve existing issues to perform the conversion."

generate_report_message(highest_status) ==
    IF STATUS_CODE[highest_status] <= STATUS_CODE["WARNING"]
    THEN [message |-> MsgConverted, alert |-> FALSE]
    ELSE [message |-> MsgCannotProceed, alert |-> TRUE]

\* dict.pop(key, default) as (value, remaining dictionary)
PopValue(m, key, default) == IF key \in DOMAIN m THEN m[key] ELSE default
PopRest(m, key) == [k \in DOMAIN m \ {key} |-> m[k]]

_generate_message_key(message, action_id) ==
    PopRest(message, "id") @@ [key |-> action_id \o "::" \o message.id]

_rename_dictionary_key(message, new_key, old_key) ==
    PopRest(message, old_key) @@ (new_key :> message[old_key])

_generate_detail_block(message) ==
    LET remediation_key ==
            IF "remediations" \in DOMAIN message THEN "remediations"
            ELSE "remediation"
        detail_block ==
            [remediations |-> <<[context |-> PopValue(message, remediation_key, "")]>>,
             diagnosis |-> <<[context |-> PopValue(message, "diagnosis", "")]>>]
    IN  PopRest(PopRest(message, remediation_key), "diagnosis")
        @@ [detail |-> detail_block]

\* apply_message_transform dropping the messages at INFO as well.
apply_message_transform_drops_info(message, action_id) ==
    IF message.level \in {"SUCCESS", "INFO"} THEN <<>>
    ELSE LET keyed == _generate_message_key(message, action_id)
             severity == _rename_dictionary_key(keyed, "severity", "level")
             summary == _rename_dictionary_key(severity, "summary", "description")
         IN  _generate_detail_block(summary) @@ [modifiers |-> <<>>]

\* apply_message_transform; the empty dictionary {} is <<>>.
apply_message_transform(message, action_id) ==
    IF message.level = "SUCCESS" THEN <<>>
    ELSE LET keyed == _generate_message_key(message, action_id)
             severity == _rename_dictionary_key(keyed, "severity", "level")
             summary == _rename_dictionary_key(severity, "summary", "description")
         IN  _generate_detail_block(summary) @@ [modifiers |-> <<>>]

RECURSIVE TransformAll(_, _)
TransformAll(records, action_id) ==
    IF records = <<>> THEN <<>>
    ELSE <<apply_message_transform(Head(records), action_id)>>
         \o TransformAll(Tail(records), action_id)

RECURSIVE transform_actions(_)
transform_actions(actions) ==
    IF actions = <<>> THEN <<>>
    ELSE LET result == Head(actions)
         IN  TransformAll(result.messages, result.id)
             \o <<apply_message_transform(result.result, result.id)>>
             \o transform_actions(Tail(actions))

transform_raw_data(raw_data) ==
    LET NotEmpty(data) == data # <<>>
    IN  Filter(NotEmpty, transform_actions(raw_data.actions))

\* ---------------------------------------------------------------- Verdict
\* entries is None or a list; to_dict tests only its truth value, so None
\* and [] are both the empty list here.
NoEntries == <<>>
\* null in the printed JSON.
JsonNull == [null |-> TRUE]

\* OutputCollector(status, message, report, entries, alert, error)
OutputCollector(status, message, report, alert) ==
    [status |-> status, alert |-> alert, error |-> FALSE,
     message |-> message, report |-> report, entries |-> NoEntries]

\* OutputCollector.to_dict: report_json is built only from truthy entries.
to_dict(output) ==
    [status |-> output.status, alert |-> output.alert, error |-> output.error,
     message |-> output.message, report |-> output.report,
     report_json |->
        IF output.entries # <<>>
        THEN [tasks_format_version |-> "1.0", tasks_format_id |-> "oamg-format",
              entries |-> output.entries]
        ELSE JsonNull]

\* --------------------------------------------------- conditions raised
MsgEligibility == "Conversion is only supported on CentOS 7.9 distributions."
MsgCustomIni == "Custom ~/.convert2rhel.ini was found."
MsgIniModified == "According to 'rpm -Va' command /etc/convert2rhel.ini was modified."
MsgInstallFailed == "Failed to install convert2rhel RPM."
MsgUpdateFailed == "Failed to update convert2rhel RPM."
MsgRollbackFailed ==
    "A rollback of changes performed by convert2rhel failed. The system is in an undefined state. Recover the system from a backup or contact Red Hat support."
MsgAnalysisFailed ==
    "An error occurred during the pre-conversion analysis. For details, refer to the convert2rhel log file on the host at /var/log/convert2rhel/convert2rhel.log"
MsgHostMetering == "Conversion succeeded but host-metering configuration failed."
MsgInsights ==
    "Conversion succeeded but update of Insights Inventory by registering the system again failed."
MsgUnexpected == "An unexpected error occurred. Expand the row for more details."

\* except ProcessError: the Verdict built from exception.message / .report
CaughtProcessError(message, report) ==
    OutputCollector("ERROR", message, report, TRUE)

\* except Exception: the Verdict built from str(exception)
CaughtException(text) == OutputCollector("ERROR", MsgUnexpected, text, TRUE)

\* ------------------------------------------------------------ the inputs
\* (distribution_id, version_id) as get_system_distro_version returns them.
SystemReleases ==
    {[dist |-> "centos linux", version |-> "7.9"],
     [dist |-> "centos linux", version |-> "8.5"],
     [dist |-> "fedora", version |-> "7.9"],
     [dist |-> None, version |-> None]}

\* dist.startswith("centos")
StartsWithCentos(dist) == dist \in {"centos", "centos linux"}

is_eligible_releases(release) == IF release # None THEN release = "7.9" ELSE FALSE

\* str() of an exception that is not a ProcessError; it may be empty.
UnexpectedTexts == {"", "unexpected failure"}

\* Transaction ids "yum history list" may show; None when it shows none.
TransactionIds == {"42"}

\* Exit codes of the external commands.
ExitCodes == {0, 1}

\* os.environ: a function from the names of the variables that are set to
\* their values.
PATH == "PATH"
PAYG == "RHC_WORKER_CONVERT2RHEL_PAYG"
DISABLE_TELEMETRY == "RHC_WORKER_CONVERT2RHEL_DISABLE_TELEMETRY"
\* A variable of the orchestrator's environment the script never reads.
HOME == "HOME"

\* os.environ.get(key, default)
environ_get(env_map, key, default) ==
    IF key \in DOMAIN env_map THEN env_map[key] ELSE default

\* The environment without any optional variable.
NoEnv == [k \in {} |-> ""]

\* The values a variable of the environment may have.
EnvValues(key) ==
    IF key = PATH THEN {"/usr/bin", "/fake/path"}
    ELSE IF key = HOME THEN {"/root"}
    ELSE {"yes", "no", "1"}

\* Every environment of the orchestrator considered: PATH is always set,
\* the two toggles and HOME may be set.
Environs ==
    UNION {{e \in [{PATH} \cup names ->
                      UNION {EnvValues(k) : k \in {PATH, PAYG, DISABLE_TELEMETRY, HOME}}] :
               \A k \in DOMAIN e : e[k] \in EnvValues(k)} :
           names \in SUBSET {PAYG, DISABLE_TELEMETRY, HOME}}

\* The environments of the runs of main(): pay-as-you-go requested or not.
RunEnvirons ==
    {(PATH :> "/usr/bin") @@ (PAYG :> "yes"),
     (PATH :> "/usr/bin") @@ (DISABLE_TELEMETRY :> "1")}

\* Content of the free-text report the tool may leave behind.
TxtInputs == {Absent, "textual report"}

\* Every level string a record of a report may carry.
Levels == DOMAIN STATUS_CODE \cup {UnknownLevel}

\* Reports the tool may leave behind: every malformed kind, and one action
\* with a result and up to MaxMessages messages at the given levels.
Reports(levels) ==
    LET malformed ==
            {[kind |-> k, actions |-> <<>>] : k \in {"unparseable", "empty", "noactions", "actions"}}
        one_action ==
            {[kind |-> "actions",
              actions |-> <<[id |-> "ACTION", result |-> Record("RESULT", l),
                             messages |-> ms]>>] :
                l \in levels,
                ms \in SeqsUpTo({Record("MESSAGE", m) : m \in levels}, MaxMessages)}
    IN  {r : r \in {NoReport} \cup malformed \cup one_action}

\* A report of one action whose result has the given level, no messages.
ReportOf(level) ==
    [kind |-> "actions",
     actions |-> <<[id |-> "ACTION", result |-> Record("RESULT", level),
                    messages |-> <<>>]>>]

\* A report left behind by an earlier run of the tool.
StaleReport == ReportOf("WARNING")

\* A few reports: none, one that does not alert, one that alerts.
FewReports == {NoReport, ReportOf("WARNING"), ReportOf("ERROR")}

\* Logs of up to n lines, and the unreadable log.
Logs(lines, n) == {log : log \in SeqsUpTo(lines, n) \cup {NoLog}}

\* A few logs, one for every way through check_for_inhibitors_in_rollback:
\* unreadable, without rollback section, a rollback section with and without
\* an error line, a rollback start that no report marker follows.
FewLogs ==
    {NoLog,
     <<PlainLine>>,
     <<start_of_rollback_section, ErrorLine, ReportMarkerLine>>,
     <<start_of_rollback_section, PlainLine, ReportMarkerLine>>,
     <<start_of_rollback_section, ErrorLine>>}

\* The actions a report may hold for one action id: a result and up to
\* MaxMessages messages, each at any level.
ActionsOf(id, levels) ==
    {[id |-> id, result |-> Record("RESULT", l), messages |-> ms] :
        l \in levels,
        ms \in SeqsUpTo({Record("MESSAGE", m) : m \in levels}, MaxMessages)}

\* Reports of one action and of two actions.
ReportsOfTwoActions(levels) ==
    {[kind |-> "actions", actions |-> <<a>>] : a \in ActionsOf("FIRST_ACTION", levels)}
    \cup {[kind |-> "actions", actions |-> <<a, b>>] :
            a \in ActionsOf("FIRST_ACTION", levels),
            b \in ActionsOf("SECOND_ACTION", levels)}

\* The shapes of a record of the report: with "remediations", with the key
\* "remediation" instead, with neither of them nor "diagnosis".
RecordShapes(id, level) ==
    {Record(id, level),
     [id |-> id, level |-> level, description |-> "description of " \o id,
      diagnosis |-> "diagnosis of " \o id,
      remediation |-> "remediation of " \o id],
     [id |-> id, level |-> level, description |-> "description of " \o id]}

\* Reports of one action with a result and up to MaxMessages messages of
\* every shape and level, alone or followed by a second action.
ShapedReports(levels) ==
    LET shaped(id) == UNION {RecordShapes(id, l) : l \in levels}
        first == {[id |-> "FIRST_ACTION", result |-> r, messages |-> ms] :
                    r \in shaped("RESULT"),
                    ms \in SeqsUpTo(shaped("MESSAGE"), MaxMessages)}
        second == [id |-> "SECOND_ACTION", result |-> Record("RESULT", "INFO"),
                   messages |-> <<Record("MESSAGE", "SUCCESS")>>]
    IN  {[kind |-> "actions", actions |-> <<a>>] : a \in first}
        \cup {[kind |-> "actions", actions |-> <<a, second>>] : a \in first}

\* Pre-run states of the pairs (path, path + ".backup").
FSInputs == [Files -> [path : PreRunPath, backup : PreRunBackup]]

\* The same with the file a kept run downloaded at the path.
BackupInputs ==
    [Files -> [path : PreRunPath \cup {Downloaded}, backup : PreRunBackup]]

\* ------------------------------------------------------------- the state
VARIABLES
    pc,                         \* position of main()
    fs,                         \* file -> [path, backup]: content on disk
    fs0,                        \* fs before the run (never changes)
    touched,                    \* file -> setup has preserved/written it
    keep,                       \* file -> RequiredFile.keep
    setup_next,                 \* index of the file setup handles next
    log_file,                   \* content of C2R_LOG_FILE
    report_file,                \* content of C2R_REPORT_FILE
    txt_file,                   \* content of C2R_REPORT_TXT_FILE
    YUM_TRANSACTIONS_TO_UNDO,   \* the pending-undo set
    convert2rhel_installed,
    transaction_id,
    returncodes,                \* exit codes of the runs of the tool
    conversion_successful,
    rollback_errors,            \* matched lines, <<>> is ""
    output,                     \* the OutputCollector
    raised,                     \* message of the condition caught, "" if none
    escaped,                    \* exception that left main(), "" if none
    cmds,                       \* external commands run so far
    cleanup_runs,               \* number of calls of cleanup
    printed,                    \* Verdicts printed between the markers
    environ,                    \* os.environ
    env,                        \* env of the Popen call of the tool
    undo_returncodes            \* exit codes of the yum undo commands, in order

vars == <<pc, fs, fs0, touched, keep, setup_next, log_file, report_file,
          txt_file, YUM_TRANSACTIONS_TO_UNDO, convert2rhel_installed,
          transaction_id, returncodes, conversion_successful, rollback_errors,
          output, raised, escaped, cmds, cleanup_runs, printed, environ, env,
          undo_returncodes>>

fsVars == <<fs, fs0, touched, keep, setup_next>>
toolVars == <<log_file, report_file, txt_file, returncodes,
              conversion_successful, rollback_errors>>
yumVars == <<YUM_TRANSACTIONS_TO_UNDO, convert2rhel_installed, transaction_id>>
endVars == <<escaped, cleanup_runs, printed, undo_returncodes>>
envVars == <<environ, env>>

\* State at the call of main(): fresh locals, the given disk content.
InitWith(fsInputs) ==
    /\ pc = "archive"
    /\ fs0 \in fsInputs
    /\ fs = fs0
    /\ touched = [f \in Files |-> FALSE]
    /\ keep = [f \in Files |-> FALSE]
    /\ setup_next = 1
    /\ log_file = NoLog
    /\ report_file \in {NoReport, StaleReport}
    /\ txt_file \in TxtInputs
    /\ YUM_TRANSACTIONS_TO_UNDO = {}
    /\ convert2rhel_installed = FALSE
    /\ transaction_id = None
    /\ returncodes = <<>>
    /\ conversion_successful = FALSE
    /\ rollback_errors = <<>>
    /\ output = OutputCollector("", "", "", FALSE)
    /\ raised = ""
    /\ escaped = ""
    /\ cmds = <<>>
    /\ cleanup_runs = 0
    /\ printed = <<>>
    /\ environ \in RunEnvirons
    /\ env = NoEnv
    /\ undo_returncodes = <<>>

\* except ProcessError / except Exception, then the finally block
Raise(message, out) ==
    /\ raised' = message
    /\ output' = out
    /\ pc' = "finalize"

RaiseProcessError(message, report) ==
    Raise(message, CaughtProcessError(message, report))

RaiseUnexpected(text) == Raise(MsgUnexpected, CaughtException(text))

\* Archive without the move of the two report files.
Archive_leaves_reports ==
    /\ pc = "archive"
    /\ pc' = "eligibility"
    /\ UNCHANGED <<fsVars, toolVars, yumVars, output, raised, cmds, endVars,
                   envVars>>

\* main: pre-existing report files are moved to the archive directory.
Archive ==
    /\ pc = "archive"
    /\ report_file' = NoReport
    /\ txt_file' = Absent
    /\ pc' = "eligibility"
    /\ UNCHANGED <<fsVars, log_file, returncodes, conversion_successful,
                   rollback_errors, yumVars, output, raised, cmds, endVars,
                   envVars>>

\* main: get_system_distro_version and the CentOS 7.9 check
Eligibility ==
    /\ pc = "eligibility"
    /\ \E release \in SystemReleases :
         IF release.dist = None
         THEN RaiseUnexpected("'NoneType' object has no attribute 'startswith'")
         ELSE IF ~StartsWithCentos(release.dist)
                 \/ ~is_eligible_releases(release.version)
         THEN RaiseProcessError(MsgEligibility, "Exiting because distribution and version")
         ELSE /\ pc' = "setup"
              /\ UNCHANGED <<output, raised>>
    /\ UNCHANGED <<fsVars, toolVars, yumVars, cmds, endVars, envVars>>

\* setup_convert2rhel: one iteration of the loop over required_files
SetupFile ==
    /\ pc = "setup"
    /\ LET f == required_files[setup_next]
           preserved == _create_or_restore_backup_file(fs[f])
       IN  /\ touched' = [touched EXCEPT ![f] = TRUE]
           /\ \/ \E text \in UnexpectedTexts :        \* urlopen / read raises
                   /\ fs' = [fs EXCEPT ![f] = preserved]
                   /\ RaiseUnexpected(text)
                   /\ UNCHANGED setup_next
              \/ /\ fs' = [fs EXCEPT ![f] = [preserved EXCEPT !.path = Downloaded]]
                 /\ setup_next' = setup_next + 1
                 /\ pc' = IF setup_next = Len(required_files)
                          THEN "precheck" ELSE "setup"
                 /\ UNCHANGED <<output, raised>>
    /\ UNCHANGED <<fs0, keep, toolVars, yumVars, cmds, endVars, envVars>>

\* check_convert2rhel_inhibitors_before_run
Precheck ==
    /\ pc = "precheck"
    /\ \E custom_ini_exists \in BOOLEAN, ini_modified \in BOOLEAN :
         IF custom_ini_exists
         THEN /\ RaiseProcessError(MsgCustomIni, "Remove the custom ini file")
              /\ UNCHANGED cmds
         ELSE /\ cmds' = Append(cmds, "rpm -Va convert2rhel")
              /\ IF ini_modified
                 THEN RaiseProcessError(MsgIniModified, "Remove the modified ini file")
                 ELSE /\ pc' = "install"
                      /\ UNCHANGED <<output, raised>>
    /\ UNCHANGED <<fsVars, toolVars, yumVars, endVars, envVars>>

\* _get_last_yum_transaction_id from the exit code of "yum history list"
\* and the ids LATEST_YUM_TRANSACTION_PATTERN finds in its output.
_get_last_yum_transaction_id(return_code, matches) ==
    IF return_code # 0 THEN None
    ELSE IF matches # <<>> THEN matches[Len(matches)] ELSE None

\* install_convert2rhel from the answers of rpm -q, of yum install/update and
\* of the transaction-id lookup: the ProcessError raised ("" if none) and the
\* pair returned.
install_convert2rhel(c2r_installed, yum_returncode, last_id) ==
    IF ~c2r_installed
    THEN IF yum_returncode # 0
         THEN [raised |-> MsgInstallFailed, installed |-> FALSE, id |-> None]
         ELSE [raised |-> "", installed |-> TRUE, id |-> last_id]
    ELSE IF yum_returncode # 0
         THEN [raised |-> MsgUpdateFailed, installed |-> FALSE, id |-> None]
         ELSE [raised |-> "", installed |-> FALSE, id |-> None]

\* main: install_convert2rhel and the registration of the undo handle
Install ==
    /\ pc = "install"
    /\ \E c2r_installed \in BOOLEAN, yum_returncode \in ExitCodes,
          list_returncode \in ExitCodes, matches \in SeqsUpTo(TransactionIds, 1) :
         LET last_id == _get_last_yum_transaction_id(list_returncode, matches)
             r == install_convert2rhel(c2r_installed, yum_returncode, last_id)
             yum == IF c2r_installed THEN "yum update convert2rhel"
                    ELSE "yum install convert2rhel"
         IN  /\ cmds' = cmds \o <<"rpm -q convert2rhel", yum>>
                        \o (IF ~c2r_installed /\ yum_returncode = 0
                            THEN <<"yum history list convert2rhel">> ELSE <<>>)
             /\ IF r.raised # ""
                THEN /\ RaiseProcessError(r.raised, "yum exited with a non-zero code")
                     /\ UNCHANGED yumVars
                ELSE /\ convert2rhel_installed' = r.installed
                     /\ transaction_id' = r.id
                     /\ YUM_TRANSACTIONS_TO_UNDO' =
                            IF r.installed
                            THEN YUM_TRANSACTIONS_TO_UNDO \cup {r.id}
                            ELSE YUM_TRANSACTIONS_TO_UNDO
                     /\ pc' = "execute"
                     /\ UNCHANGED <<output, raised>>
    /\ UNCHANGED <<fsVars, toolVars, endVars, envVars>>

\* " ".join(cmd), as run_subprocess prints the command it calls.
RECURSIVE JoinCmd(_)
JoinCmd(cmd) ==
    IF cmd = <<>> THEN ""
    ELSE IF Len(cmd) = 1 THEN cmd[1]
    ELSE cmd[1] \o " " \o JoinCmd(Tail(cmd))

\* run_convert2rhel handing the whole environment of the orchestrator on.
run_convert2rhel_inherits(env_map) ==
    [cmd |-> <<"/usr/bin/convert2rhel", "-y">>,
     env |-> IF DISABLE_TELEMETRY \in DOMAIN env_map
             THEN env_map
                  @@ ("CONVERT2RHEL_DISABLE_TELEMETRY" :> env_map[DISABLE_TELEMETRY])
             ELSE env_map]

\* run_convert2rhel: the arguments of its call of run_subprocess.
run_convert2rhel(env_map) ==
    [cmd |-> <<"/usr/bin/convert2rhel", "-y">>,
     env |-> IF DISABLE_TELEMETRY \in DOMAIN env_map
             THEN (PATH :> env_map[PATH])
                  @@ ("CONVERT2RHEL_DISABLE_TELEMETRY" :> env_map[DISABLE_TELEMETRY])
             ELSE (PATH :> env_map[PATH])]

\* The command line of the tool as the orchestrator calls it.
ToolCommand == JoinCmd(run_convert2rhel(environ).cmd)

\* main: run_convert2rhel returns; the tool has written its log and reports.
Execute(logs, reports) ==
    /\ pc = "execute"
    /\ \E rc \in ExitCodes, log \in logs, report \in reports, txt \in TxtInputs :
         /\ log_file' = log
         /\ report_file' = report
         /\ txt_file' = txt
         /\ returncodes' = Append(returncodes, rc)
         /\ conversion_successful' = (rc = 0)
    /\ cmds' = Append(cmds, ToolCommand)
    /\ env' = run_convert2rhel(environ).env
    /\ pc' = "evaluate"
    /\ UNCHANGED <<fsVars, rollback_errors, yumVars, output, raised, endVars,
                   environ>>

\* main: run_subprocess raises while the tool runs (Popen fails, its output
\* cannot be decoded); the reports the tool wrote so far stay on disk and
\* the log is not read on this path.
ExecuteRaises(reports) ==
    /\ pc = "execute"
    /\ \E report \in reports, txt \in TxtInputs, text \in UnexpectedTexts :
         /\ report_file' = report
         /\ txt_file' = txt
         /\ RaiseUnexpected(text)
    /\ cmds' = Append(cmds, ToolCommand)
    /\ env' = run_convert2rhel(environ).env
    /\ UNCHANGED <<fsVars, log_file, returncodes, conversion_successful,
                   rollback_errors, yumVars, endVars, environ>>

\* Evaluate raising only on rollback errors: a non-zero exit code without
\* them goes on to the remediation.
Evaluate_ignores_exit_code ==
    /\ pc = "evaluate"
    /\ LET r == check_for_inhibitors_in_rollback(log_file)
       IN  IF r.raised # ""
           THEN /\ RaiseUnexpected("list index out of range")
                /\ UNCHANGED rollback_errors
           ELSE /\ rollback_errors' = r.matches
                /\ IF ~conversion_successful /\ r.matches # <<>>
                   THEN RaiseProcessError(MsgRollbackFailed,
                            "Relevant lines from log file")
                   ELSE /\ pc' = "remediate"
                        /\ UNCHANGED <<output, raised>>
    /\ UNCHANGED <<fsVars, log_file, report_file, txt_file, returncodes,
                   conversion_successful, yumVars, cmds, endVars, envVars>>

\* main: check_for_inhibitors_in_rollback and the two conditions raised on
\* a non-zero exit code
Evaluate ==
    /\ pc = "evaluate"
    /\ LET r == check_for_inhibitors_in_rollback(log_file)
       IN  IF r.raised # ""
           THEN /\ RaiseUnexpected("list index out of range")
                /\ UNCHANGED rollback_errors
           ELSE /\ rollback_errors' = r.matches
                /\ IF ~conversion_successful
                   THEN IF r.matches # <<>>
                        THEN RaiseProcessError(MsgRollbackFailed,
                                 "Relevant lines from log file")
                        ELSE RaiseProcessError(MsgAnalysisFailed,
                                 "convert2rhel exited with a non-zero code")
                   ELSE /\ pc' = "remediate"
                        /\ UNCHANGED <<output, raised>>
    /\ UNCHANGED <<fsVars, log_file, report_file, txt_file, returncodes,
                   conversion_successful, yumVars, cmds, endVars, envVars>>

\* The commands of configure_host_metering, in the order it runs them.
HostMeteringSteps ==
    <<"yum install -y host-metering", "systemctl enable host-metering.service",
      "systemctl start host-metering.service">>

\* The report of the ProcessError raised when a step exits non-zero.
HostMeteringReports ==
    <<"Failed to install host-metering rpms", "Failed to enable host-metering service",
      "Failed to start host-metering service">>

\* configure_host_metering skipping only on the value "no".
configure_host_metering_unless_no(payg, rcs) ==
    LET IsFailure(i) == rcs[i] # 0
        Steps == 1..Len(HostMeteringSteps)
        failed == IF \E i \in Steps : IsFailure(i)
                  THEN CHOOSE i \in Steps :
                         IsFailure(i) /\ \A j \in 1..(i - 1) : ~IsFailure(j)
                  ELSE 0
    IN  IF payg = "no" THEN [run |-> <<>>, failed |-> 0]
        ELSE IF failed = 0 THEN [run |-> HostMeteringSteps, failed |-> 0]
        ELSE [run |-> SubSeq(HostMeteringSteps, 1, failed), failed |-> failed]

\* configure_host_metering from the value os.environ.get gives for the PAYG
\* variable and the exit codes its commands would return: the commands run
\* and the index of the step that raised (0 if none).
configure_host_metering(payg, rcs) ==
    LET IsFailure(i) == rcs[i] # 0
        Steps == 1..Len(HostMeteringSteps)
        failed == IF \E i \in Steps : IsFailure(i)
                  THEN CHOOSE i \in Steps :
                         IsFailure(i) /\ \A j \in 1..(i - 1) : ~IsFailure(j)
                  ELSE 0
    IN  IF payg # "yes" THEN [run |-> <<>>, failed |-> 0]
        ELSE IF failed = 0 THEN [run |-> HostMeteringSteps, failed |-> 0]
        ELSE [run |-> SubSeq(HostMeteringSteps, 1, failed), failed |-> failed]

\* main: configure_host_metering and update_insights_inventory
Remediate ==
    /\ pc = "remediate"
    /\ \E rcs \in [1..3 -> ExitCodes], insights \in ExitCodes :
         LET hm == configure_host_metering(environ_get(environ, PAYG, "no"), rcs)
         IN  IF hm.failed # 0
             THEN /\ cmds' = cmds \o hm.run
                  /\ RaiseProcessError(MsgHostMetering, HostMeteringReports[hm.failed])
             ELSE /\ cmds' = cmds \o hm.run \o <<"insights-client">>
                  /\ IF insights # 0
                     THEN RaiseProcessError(MsgInsights,
                              "insights-client exited with a non-zero code")
                     ELSE /\ pc' = "finalize"
                          /\ UNCHANGED <<output, raised>>
    /\ UNCHANGED <<fsVars, toolVars, yumVars, endVars, envVars>>

\* finalize_block with the free-text fallback moved out of the branch that
\* requires a loaded structured report.
finalize_block_fallback_always(out, data, rb_errors, successful, installed, txid, undo, kp, txt) ==
    LET fallback(o) == IF o.report = "" /\ ~successful
                       THEN [o EXCEPT !.report = gather_textual_report(txt)]
                       ELSE o
        unchanged == [raised |-> "", output |-> fallback(out), keep |-> kp,
                      undo |-> undo]
    IN
    IF Truthy(data) /\ rb_errors = <<>>
    THEN IF data.kind = "noactions"
         THEN [unchanged EXCEPT !.raised = "KeyError"]
         ELSE
         LET highest_level == find_highest_report_level(data.actions)
         IN
         IF highest_level = RaisesIndexError
         THEN [unchanged EXCEPT !.raised = "IndexError"]
         ELSE
         LET m == generate_report_message(highest_level)
             out1 == [out EXCEPT !.status = highest_level,
                                 !.message = m.message, !.alert = m.alert]
             out3 == IF ~successful /\ rb_errors = <<>>
                     THEN [fallback(out1) EXCEPT !.entries = transform_raw_data(data)]
                     ELSE fallback(out1)
         IN  [raised |-> "",
              output |-> out3,
              keep |-> IF ~m.alert THEN [f \in Files |-> TRUE] ELSE kp,
              undo |-> IF ~m.alert /\ installed THEN undo \ {txid} ELSE undo]
    ELSE unchanged

\* finalize_block leaving the status, message and alert of a condition that
\* was raised in the try block as they are.
finalize_block_keeps_raised(out, data, rb_errors, successful, installed, txid, undo, kp, txt) ==
    LET unchanged == [raised |-> "", output |-> out, keep |-> kp, undo |-> undo]
    IN
    IF Truthy(data) /\ rb_errors = <<>>
    THEN IF data.kind = "noactions"
         THEN [unchanged EXCEPT !.raised = "KeyError"]
         ELSE
         LET highest_level == find_highest_report_level(data.actions)
         IN
         IF highest_level = RaisesIndexError
         THEN [unchanged EXCEPT !.raised = "IndexError"]
         ELSE
         LET m == generate_report_message(highest_level)
             out1 == IF out.status = "ERROR" THEN out
                     ELSE [out EXCEPT !.status = highest_level,
                                      !.message = m.message, !.alert = m.alert]
             out2 == IF out1.report = "" /\ ~successful
                     THEN [out1 EXCEPT !.report = gather_textual_report(txt)]
                     ELSE out1
             out3 == IF ~successful /\ rb_errors = <<>>
                     THEN [out2 EXCEPT !.entries = transform_raw_data(data)]
                     ELSE out2
         IN  [raised |-> "",
              output |-> out3,
              keep |-> IF ~out1.alert THEN [f \in Files |-> TRUE] ELSE kp,
              undo |-> IF ~out1.alert /\ installed THEN undo \ {txid} ELSE undo]
    ELSE unchanged

\* finalize_block attaching the flattened findings whatever the exit code
\* of the tool was.
finalize_block_entries_always(out, data, rb_errors, successful, installed, txid, undo, kp, txt) ==
    LET unchanged == [raised |-> "", output |-> out, keep |-> kp, undo |-> undo]
    IN
    IF Truthy(data) /\ rb_errors = <<>>
    THEN IF data.kind = "noactions"
         THEN [unchanged EXCEPT !.raised = "KeyError"]
         ELSE
         LET highest_level == find_highest_report_level(data.actions)
         IN
         IF highest_level = RaisesIndexError
         THEN [unchanged EXCEPT !.raised = "IndexError"]
         ELSE
         LET m == generate_report_message(highest_level)
             out1 == [out EXCEPT !.status = highest_level,
                                 !.message = m.message, !.alert = m.alert]
             out2 == IF out1.report = "" /\ ~successful
                     THEN [out1 EXCEPT !.report = gather_textual_report(txt)]
                     ELSE out1
             out3 == [out2 EXCEPT !.entries = transform_raw_data(data)]
         IN  [raised |-> "",
              output |-> out3,
              keep |-> IF ~m.alert THEN [f \in Files |-> TRUE] ELSE kp,
              undo |-> IF ~m.alert /\ installed THEN undo \ {txid} ELSE undo]
    ELSE unchanged

\* main: the report reconciliation of the finally block, before cleanup.
\* Returns the exception leaving the block ("" if none) and the new values
\* of output, of the keep flags and of the pending-undo set.
finalize_block(out, data, rb_errors, successful, installed, txid, undo, kp, txt) ==
    LET unchanged == [raised |-> "", output |-> out, keep |-> kp, undo |-> undo]
    IN
    IF Truthy(data) /\ rb_errors = <<>>
    THEN IF data.kind = "noactions"                      \* data["actions"]
         THEN [unchanged EXCEPT !.raised = "KeyError"]
         ELSE
         LET highest_level == find_highest_report_level(data.actions)
         IN
         IF highest_level = RaisesIndexError
         THEN [unchanged EXCEPT !.raised = "IndexError"]
         ELSE
         LET m == generate_report_message(highest_level)
             out1 == [out EXCEPT !.status = highest_level,
                                 !.message = m.message, !.alert = m.alert]
             out2 == IF out1.report = "" /\ ~successful
                     THEN [out1 EXCEPT !.report = gather_textual_report(txt)]
                     ELSE out1
             out3 == IF ~successful /\ rb_errors = <<>>
                     THEN [out2 EXCEPT !.entries = transform_raw_data(data)]
                     ELSE out2
         IN  [raised |-> "",
              output |-> out3,
              keep |-> IF ~m.alert THEN [f \in Files |-> TRUE] ELSE kp,
              undo |-> IF ~m.alert /\ installed THEN undo \ {txid} ELSE undo]
    ELSE unchanged

\* main: finally, up to the call of cleanup
Finalize ==
    /\ pc = "finalize"
    /\ LET r == finalize_block(output, gather_json_report(report_file),
                               rollback_errors, conversion_successful,
                               convert2rhel_installed, transaction_id,
                               YUM_TRANSACTIONS_TO_UNDO, keep, txt_file)
       IN  /\ output' = r.output
           /\ keep' = r.keep
           /\ YUM_TRANSACTIONS_TO_UNDO' = r.undo
           /\ escaped' = r.raised
           /\ pc' = IF r.raised # "" THEN "crashed" ELSE "cleanup"
    /\ UNCHANGED <<fs, fs0, touched, setup_next, toolVars,
                   convert2rhel_installed, transaction_id, raised, cmds,
                   cleanup_runs, printed, envVars, undo_returncodes>>

\* cleanup: the body of the loop over required_files
cleanup_file(p, kp) ==
    IF kp THEN p
    ELSE _create_or_restore_backup_file([p EXCEPT !.path = Absent])

\* cleanup: the undo commands of the loop over YUM_TRANSACTIONS_TO_UNDO,
\* in an order of iteration of the set.
RECURSIVE UndoCommands(_)
UndoCommands(ids) ==
    IF ids = {} THEN <<>>
    ELSE LET id == CHOOSE x \in ids : TRUE
         IN  <<"yum history undo -y " \o id>> \o UndoCommands(ids \ {id})

\* cleanup raising when a yum undo exits non-zero.
Cleanup_raises_on_failed_undo ==
    /\ pc = "cleanup"
    /\ cleanup_runs' = cleanup_runs + 1
    /\ fs' = [f \in Files |-> cleanup_file(fs[f], keep[f])]
    /\ IF None \in YUM_TRANSACTIONS_TO_UNDO
       THEN /\ escaped' = "TypeError"
            /\ pc' = "crashed"
            /\ UNCHANGED <<cmds, undo_returncodes>>
       ELSE /\ \E rcs \in SeqsUpTo(ExitCodes, Cardinality(YUM_TRANSACTIONS_TO_UNDO)) :
                 /\ Len(rcs) = Cardinality(YUM_TRANSACTIONS_TO_UNDO)
                 /\ undo_returncodes' = rcs
                 /\ IF \E i \in DOMAIN rcs : rcs[i] # 0
                    THEN escaped' = "ProcessError" /\ pc' = "crashed"
                    ELSE pc' = "emit" /\ UNCHANGED escaped
            /\ cmds' = cmds \o UndoCommands(YUM_TRANSACTIONS_TO_UNDO)
    /\ UNCHANGED <<fs0, touched, keep, setup_next, toolVars, yumVars, output,
                   raised, printed, envVars>>

\* main: cleanup(required_files). run_subprocess joins the command with
\* " ", which raises TypeError on a transaction id that is None. The exit
\* code of a yum undo is only printed.
Cleanup ==
    /\ pc = "cleanup"
    /\ cleanup_runs' = cleanup_runs + 1
    /\ fs' = [f \in Files |-> cleanup_file(fs[f], keep[f])]
    /\ IF None \in YUM_TRANSACTIONS_TO_UNDO
       THEN /\ escaped' = "TypeError"
            /\ pc' = "crashed"
            /\ UNCHANGED <<cmds, undo_returncodes>>
       ELSE /\ \E rcs \in SeqsUpTo(ExitCodes, Cardinality(YUM_TRANSACTIONS_TO_UNDO)) :
                 /\ Len(rcs) = Cardinality(YUM_TRANSACTIONS_TO_UNDO)
                 /\ undo_returncodes' = rcs
            /\ cmds' = cmds \o UndoCommands(YUM_TRANSACTIONS_TO_UNDO)
            /\ pc' = "emit"
            /\ UNCHANGED escaped
    /\ UNCHANGED <<fs0, touched, keep, setup_next, toolVars, yumVars, output,
                   raised, printed, envVars>>

\* main: the Verdict between "### JSON START ###" and "### JSON END ###"
Emit ==
    /\ pc = "emit"
    /\ printed' = Append(printed, to_dict(output))
    /\ pc' = "done"
    /\ UNCHANGED <<fsVars, toolVars, yumVars, output, raised, escaped, cmds,
                   cleanup_runs, envVars, undo_returncodes>>

\* ---------------------------------------------------- the specifications
\* Spec: runs on a host without files at the required paths; the tool
\* leaves behind one of a few logs and every report of Reports(Levels).
Init == InitWith({[f \in Files |-> [path |-> Absent, backup |-> Absent]]})

Next ==
    \/ Archive
    \/ Eligibility
    \/ SetupFile
    \/ Precheck
    \/ Install
    \/ Execute(FewLogs, Reports(Levels))
    \/ ExecuteRaises(Reports(Levels))
    \/ Evaluate
    \/ Remediate
    \/ Finalize
    \/ Cleanup
    \/ Emit

Spec == Init /\ [][Next]_vars

\* SpecLog: the same host; the tool leaves behind every log of up to
\* MaxLogLen lines and one of a few reports.
InitLog == InitWith({[f \in Files |-> [path |-> Absent, backup |-> Absent]]})

NextLog ==
    \/ Archive
    \/ Eligibility
    \/ SetupFile
    \/ Precheck
    \/ Install
    \/ Execute(Logs(LogLines, MaxLogLen), FewReports)
    \/ ExecuteRaises(FewReports)
    \/ Evaluate
    \/ Remediate
    \/ Finalize
    \/ Cleanup
    \/ Emit

SpecLog == InitLog /\ [][NextLog]_vars

\* SpecFS: runs on every pre-run state of the required paths and their
\* ".backup" siblings; the tool leaves behind one of a few logs and reports.
InitFS == InitWith(FSInputs)

NextFS ==
    \/ Archive
    \/ Eligibility
    \/ SetupFile
    \/ Precheck
    \/ Install
    \/ Execute(FewLogs, FewReports)
    \/ ExecuteRaises(FewReports)
    \/ Evaluate
    \/ Remediate
    \/ Finalize
    \/ Cleanup
    \/ Emit

SpecFS == InitFS /\ [][NextFS]_vars

\* SpecStale: the runs of SpecFS's host without pre-run files that start
\* with the structured report of an earlier run still at its path.
InitStale ==
    /\ InitWith({[f \in Files |-> [path |-> Absent, backup |-> Absent]]})
    /\ report_file = StaleReport

NextStale ==
    \/ Archive
    \/ Eligibility
    \/ SetupFile
    \/ Precheck
    \/ Install
    \/ Execute(FewLogs, FewReports)
    \/ ExecuteRaises(FewReports)
    \/ Evaluate
    \/ Remediate
    \/ Finalize
    \/ Cleanup
    \/ Emit

SpecStale == InitStale /\ [][NextStale]_vars

\* ------------------------------------------------- single functions
\* The specifications below call one function of the script on every input
\* of a bounded set. The variables keep their meaning; escaped is the
\* exception that left the function called, raised and output hold the
\* ProcessError it raised, returncodes the exit codes of the commands it ran.

\* The locals of main() before any step, at the given position.
DriverInit(position) ==
    /\ pc = position
    /\ touched = [f \in Files |-> FALSE]
    /\ keep = [f \in Files |-> FALSE]
    /\ YUM_TRANSACTIONS_TO_UNDO = {}
    /\ convert2rhel_installed = FALSE
    /\ transaction_id = None
    /\ returncodes = <<>>
    /\ conversion_successful = FALSE
    /\ rollback_errors = <<>>
    /\ output = OutputCollector("", "", "", FALSE)
    /\ raised = ""
    /\ escaped = ""
    /\ cmds = <<>>
    /\ cleanup_runs = 0
    /\ printed = <<>>
    /\ env = NoEnv
    /\ undo_returncodes = <<>>

\* No file at a required path, no log, no reports.
NoFilesOnDisk ==
    /\ fs0 = [f \in Files |-> [path |-> Absent, backup |-> Absent]]
    /\ fs = fs0
    /\ setup_next = 1
    /\ log_file = NoLog
    /\ report_file = NoReport
    /\ txt_file = Absent

\* SpecEnv: run_convert2rhel and configure_host_metering in every
\* environment of Environs.
InitEnv ==
    /\ DriverInit("call")
    /\ NoFilesOnDisk
    /\ environ \in Environs

\* run_convert2rhel()
RunConvert2rhel ==
    /\ pc = "call"
    /\ cmds' = <<JoinCmd(run_convert2rhel(environ).cmd)>>
    /\ env' = run_convert2rhel(environ).env
    /\ pc' = "run_convert2rhel returned"
    /\ UNCHANGED <<fsVars, toolVars, yumVars, output, raised, endVars, environ>>

\* configure_host_metering()
ConfigureHostMetering ==
    /\ pc = "call"
    /\ \E rcs \in [1..3 -> ExitCodes] :
         LET hm == configure_host_metering(environ_get(environ, PAYG, "no"), rcs)
         IN  /\ cmds' = hm.run
             /\ returncodes' = SubSeq(rcs, 1, Len(hm.run))
             /\ IF hm.failed # 0
                THEN /\ raised' = MsgHostMetering
                     /\ output' = CaughtProcessError(MsgHostMetering,
                                                     HostMeteringReports[hm.failed])
                ELSE UNCHANGED <<raised, output>>
    /\ pc' = "configure_host_metering returned"
    /\ UNCHANGED <<fsVars, log_file, report_file, txt_file, conversion_successful,
                   rollback_errors, yumVars, endVars, envVars>>

NextEnv ==
    \/ RunConvert2rhel
    \/ ConfigureHostMetering

SpecEnv == InitEnv /\ [][NextEnv]_vars

\* SpecRank: find_highest_report_level on every report of one or two
\* actions.
InitRank ==
    /\ DriverInit("call")
    /\ fs0 = [f \in Files |-> [path |-> Absent, backup |-> Absent]]
    /\ fs = fs0
    /\ setup_next = 1
    /\ log_file = NoLog
    /\ report_file \in ReportsOfTwoActions(Levels)
    /\ txt_file = Absent
    /\ environ = (PATH :> "/usr/bin")

\* output.status = find_highest_report_level(actions=data["actions"])
Rank ==
    /\ pc = "call"
    /\ LET highest_level == find_highest_report_level(report_file.actions)
       IN  IF highest_level = RaisesIndexError
           THEN /\ escaped' = "IndexError"
                /\ UNCHANGED output
           ELSE /\ output' = [output EXCEPT !.status = highest_level]
                /\ UNCHANGED escaped
    /\ pc' = "find_highest_report_level returned"
    /\ UNCHANGED <<fsVars, toolVars, yumVars, raised, cmds, cleanup_runs,
                   printed, envVars, undo_returncodes>>

NextRank == Rank

SpecRank == InitRank /\ [][NextRank]_vars

\* SpecTransform: transform_raw_data on every report of ShapedReports.
InitTransform ==
    /\ DriverInit("call")
    /\ fs0 = [f \in Files |-> [path |-> Absent, backup |-> Absent]]
    /\ fs = fs0
    /\ setup_next = 1
    /\ log_file = NoLog
    /\ report_file \in ShapedReports(Levels)
    /\ txt_file = Absent
    /\ environ = (PATH :> "/usr/bin")

\* output.entries = transform_raw_data(data)
Transform ==
    /\ pc = "call"
    /\ output' = [output EXCEPT !.entries = transform_raw_data(report_file)]
    /\ pc' = "transform_raw_data returned"
    /\ UNCHANGED <<fsVars, toolVars, yumVars, raised, cmds, endVars, envVars>>

NextTransform == Transform

SpecTransform == InitTransform /\ [][NextTransform]_vars

\* SpecBackup: _create_or_restore_backup_file called twice on one of the
\* required files, for every content of the two pairs.
InitBackup ==
    /\ DriverInit("call")
    /\ fs0 \in BackupInputs
    /\ fs = fs0
    /\ setup_next \in 1..Len(required_files)
    /\ log_file = NoLog
    /\ report_file = NoReport
    /\ txt_file = Absent
    /\ environ = (PATH :> "/usr/bin")

\* _create_or_restore_backup_file(required_files[setup_next])
Preserve ==
    /\ pc \in {"call", "called once"}
    /\ LET f == required_files[setup_next]
       IN  fs' = [fs EXCEPT ![f] = _create_or_restore_backup_file(fs[f])]
    /\ pc' = IF pc = "call" THEN "called once" ELSE "called twice"
    /\ UNCHANGED <<fs0, touched, keep, setup_next, toolVars, yumVars, output,
                   raised, cmds, endVars, envVars>>

NextBackup == Preserve

SpecBackup == InitBackup /\ [][NextBackup]_vars

\* SpecDetect: check_for_inhibitors_in_rollback on every log of up to
\* MaxLogLen lines and on the unreadable log.
InitDetect ==
    /\ DriverInit("call")
    /\ fs0 = [f \in Files |-> [path |-> Absent, backup |-> Absent]]
    /\ fs = fs0
    /\ setup_next = 1
    /\ log_file \in Logs(LogLines, MaxLogLen)
    /\ report_file = NoReport
    /\ txt_file = Absent
    /\ environ = (PATH :> "/usr/bin")

\* rollback_errors = check_for_inhibitors_in_rollback()
Detect ==
    /\ pc = "call"
    /\ LET r == check_for_inhibitors_in_rollback(log_file)
       IN  /\ escaped' = r.raised
           /\ rollback_errors' = r.matches
    /\ pc' = "check_for_inhibitors_in_rollback returned"
    /\ UNCHANGED <<fsVars, log_file, report_file, txt_file, returncodes,
                   conversion_successful, yumVars, output, raised, cmds,
                   cleanup_runs, printed, envVars, undo_returncodes>>

NextDetect == Detect

SpecDetect == InitDetect /\ [][NextDetect]_vars

\* Transaction ids that may be pending when cleanup is called.
PendingIds == {"41", "42"}

\* Verdicts main() may hold when it calls cleanup.
VerdictsAtCleanup ==
    {OutputCollector("", "", "", FALSE),
     CaughtProcessError(MsgAnalysisFailed, "convert2rhel exited with a non-zero code"),
     [OutputCollector("ERROR", MsgCannotProceed, "textual report", TRUE)
        EXCEPT !.entries = transform_raw_data(ReportOf("ERROR"))]}

\* SpecUndo: cleanup and the print of the Verdict, for every set of pending
\* transaction ids, every exit code of their yum undo, and a few Verdicts.
InitUndo ==
    /\ pc = "cleanup"
    /\ fs0 \in FSInputs
    /\ fs = fs0
    /\ touched = [f \in Files |-> FALSE]
    /\ keep \in {[f \in Files |-> FALSE], [f \in Files |-> TRUE]}
    /\ setup_next = 1
    /\ log_file = NoLog
    /\ report_file = NoReport
    /\ txt_file = Absent
    /\ YUM_TRANSACTIONS_TO_UNDO \in SUBSET PendingIds
    /\ convert2rhel_installed = FALSE
    /\ transaction_id = None
    /\ returncodes = <<>>
    /\ conversion_successful = FALSE
    /\ rollback_errors = <<>>
    /\ output \in VerdictsAtCleanup
    /\ raised = ""
    /\ escaped = ""
    /\ cmds = <<>>
    /\ cleanup_runs = 0
    /\ printed = <<>>
    /\ environ = (PATH :> "/usr/bin")
    /\ env = NoEnv
    /\ undo_returncodes = <<>>

NextUndo ==
    \/ Cleanup
    \/ Emit

SpecUndo == InitUndo /\ [][NextUndo]_vars

Terminated == pc \in {"done", "crashed"}

\* ------------------------------------------------------------ vocabulary
\* The Verdict printed by the run (defined once one is printed).
Verdict == printed[1]

Ran(cmd) == \E i \in 1..Len(cmds) : cmds[i] = cmd

UndoIssued ==
    \E id \in TransactionIds : Ran("yum history undo -y " \o id)

\* The exceptions the reconciliation of the finally block can raise.
FinalizeExceptions == {"KeyError", "IndexError"}

\* The fresh install of this run found no transaction id.
LookupFailed == convert2rhel_installed /\ transaction_id = None

\* Known tiers among the result and message levels of a report.
TiersOf(report) ==
    {CombinedLevels(report.actions)[i] :
        i \in 1..Len(CombinedLevels(report.actions))} \cap DOMAIN STATUS_CODE

\* The report's most severe known tier is t.
HighestTierIs(report, t) ==
    /\ report.kind = "actions"
    /\ t \in TiersOf(report)
    /\ \A l \in TiersOf(report) : STATUS_CODE[l] <= STATUS_CODE[t]

\* Report content that is present but not a usable report.
InvalidContent(report) == report.kind \in {"unparseable", "empty"}

MalformedReport(report) ==
    \/ InvalidContent(report)
    \/ report.kind = "noactions"
    \/ report.kind = "actions" /\ TiersOf(report) = {}

\* The rollback section of a log as section 4.3 of the specification bounds
\* it: the lines after the first rollback-start marker and before the first
\* subsequent line with the report marker. Some line of it matches the
\* error vocabulary.
RollbackSectionHasError(log) ==
    /\ log # NoLog
    /\ \E start, end \in 1..Len(log) :
         /\ log[start] = start_of_rollback_section
         /\ \A i \in 1..(start - 1) : log[i] # start_of_rollback_section
         /\ end > start
         /\ HasReportMarker(log[end])
         /\ \A i \in (start + 1)..(end - 1) : ~HasReportMarker(log[i])
         /\ \E i \in (start + 1)..(end - 1) : DETECT_ERROR_IN_ROLLBACK_PATTERN(log[i])

\* ------------------------------------------------------------------ claims

\* C1: every run of main() ends with exactly one Verdict printed between
\* the markers and with no exception escaping main().
C1_ExactlyOneVerdict ==
    /\ Len(printed) <= 1
    /\ Terminated => (Len(printed) = 1 /\ escaped = "")

\* C2: in every run cleanup(required_files) is executed exactly once, before
\* the Verdict is printed; no run ends without cleanup having run.
C2_CleanupExactlyOnce ==
    /\ cleanup_runs <= 1
    /\ printed # <<>> => cleanup_runs = 1
    /\ Terminated => cleanup_runs = 1

\* C3: a run that set a required file up and ends with the file not marked
\* keep leaves the pair (path, path + ".backup") in its pre-run state.
C3_PairRestored ==
    pc = "done" =>
        \A f \in Files : (touched[f] /\ ~keep[f]) => fs[f] = fs0[f]

\* C4: a required file that setup never touched (the run aborted before) is
\* still present with its pre-run content after cleanup, and a run aborted
\* at Eligibility installs and undoes no package.
C4_UntouchedFileUnchanged ==
    pc = "done" =>
        /\ \A f \in Files :
             (~touched[f] /\ fs0[f].path # Absent) => fs[f].path = fs0[f].path
        /\ (\A f \in Files : ~touched[f]) =>
             (~Ran("yum install convert2rhel") /\ ~UndoIssued)

\* C5: when the tool exits 0 and the report's highest level is WARNING, the
\* Verdict has status WARNING and alert false, both required files are
\* kept, and the transaction of the fresh install is no longer pending, so
\* no yum undo is issued.
C5_WarningScenario ==
    (pc = "done" /\ returncodes = <<0>> /\ HighestTierIs(report_file, "WARNING")) =>
        /\ Verdict.status = "WARNING"
        /\ Verdict.alert = FALSE
        /\ \A f \in Files : keep[f]
        /\ transaction_id \notin YUM_TRANSACTIONS_TO_UNDO
        /\ ~UndoIssued

\* C6: when the tool exits non-zero and the rollback section of the log
\* holds a line matching the error vocabulary, the Verdict has status ERROR,
\* alert true and the rollback-failed message, and carries no structured
\* findings.
C6_RollbackFailedScenario ==
    (pc = "done" /\ returncodes # <<>> /\ returncodes # <<0>>
     /\ RollbackSectionHasError(log_file)) =>
        /\ Verdict.status = "ERROR"
        /\ Verdict.alert = TRUE
        /\ Verdict.message = MsgRollbackFailed
        /\ Verdict.report_json = JsonNull

C8_MalformedReportNeverAborts ==
    MalformedReport(report_file) =>
        /\ escaped \notin FinalizeExceptions
        /\ pc \in {"emit", "done"} => cleanup_runs = 1
        /\ pc = "done" => (Len(printed) = 1 /\ Verdict.report_json = JsonNull)

\* C9: after the Install step the pending-undo set holds an undo handle if
\* and only if the package was freshly installed and its transaction id was
\* found; an update adds nothing and a failed lookup adds nothing.
C9_HandleIffFreshInstall ==
    pc = "execute" =>
        YUM_TRANSACTIONS_TO_UNDO =
            IF Ran("yum install convert2rhel") /\ transaction_id # None
            THEN {transaction_id} ELSE {}

\* C10: after a fresh install whose transaction-id lookup failed, cleanup
\* issues no yum undo, completes without raising, and the Verdict is
\* printed.
C10_FailedLookupNotFatal ==
    LookupFailed =>
        /\ ~UndoIssued
        /\ escaped # "TypeError"
        /\ (Terminated /\ cleanup_runs = 1) => Len(printed) = 1

\* The handle of this run's install is no longer in the pending-undo set.
HandleRemoved ==
    convert2rhel_installed /\ transaction_id \notin YUM_TRANSACTIONS_TO_UNDO

\* The highest known tier of the structured report is above WARNING.
SeverityAboveWarning ==
    \E t \in DOMAIN STATUS_CODE :
        HighestTierIs(report_file, t) /\ STATUS_CODE[t] > STATUS_CODE["WARNING"]

\* C11: a keep flag is true or this run's handle is removed from the
\* pending-undo set only in runs where the tool exited 0 and the Verdict is
\* non-alerting; when the tool exited non-zero or never ran, cleanup starts
\* with keep false for both files and the registered handle still pending.
C11_KeepOnlyAfterSuccess ==
    /\ ((\E f \in Files : keep[f]) \/ HandleRemoved) =>
           (returncodes = <<0>> /\ ~output.alert)
    /\ (pc = "cleanup" /\ returncodes # <<0>>) =>
           /\ \A f \in Files : ~keep[f]
           /\ convert2rhel_installed => transaction_id \in YUM_TRANSACTIONS_TO_UNDO

\* C12: the printed Verdict has alert true exactly when a condition was
\* raised inside the orchestrated steps or the highest severity of the
\* report is above WARNING.
C12_AlertIffFailure ==
    pc = "done" => (Verdict.alert <=> (raised # "" \/ SeverityAboveWarning))

\* The messages of the conditions raised before the tool is executed.
EarlyMessages ==
    {MsgEligibility, MsgCustomIni, MsgIniModified, MsgInstallFailed,
     MsgUpdateFailed, MsgUnexpected}

\* C13: a run that ends without the tool having been executed prints a
\* Verdict with status ERROR, alert true, error false and the message of the
\* condition raised; between the archive step and the execution of the tool
\* no structured or free-text report is at its path, so a stale report
\* cannot overwrite that Verdict.
C13_FailureBeforeTool ==
    /\ (pc \notin {"archive"} /\ ~Ran(ToolCommand)) =>
           (report_file = NoReport /\ txt_file = Absent)
    /\ (Terminated /\ ~Ran(ToolCommand)) =>
           /\ pc = "done"
           /\ raised \in EarlyMessages
           /\ Verdict.status = "ERROR"
           /\ Verdict.alert = TRUE
           /\ Verdict.error = FALSE
           /\ Verdict.message = raised
           /\ Verdict.report_json = JsonNull

\* A run that started with a stale report, found a distribution that is
\* not CentOS 7.9, and printed its Verdict without executing the tool.
C13_Witness ==
    /\ pc = "done"
    /\ ~Ran(ToolCommand)
    /\ raised = MsgEligibility
    /\ Verdict.status = "ERROR"
    /\ Verdict.message = MsgEligibility

\* The pay-as-you-go toggle has the exact value "yes".
PaygRequested == PAYG \in DOMAIN environ /\ environ[PAYG] = "yes"

\* C14: run_convert2rhel calls the tool with the argument --payg if and
\* only if RHC_WORKER_CONVERT2RHEL_PAYG is exactly "yes"; otherwise the
\* argument list is /usr/bin/convert2rhel -y.
C14_PaygArgument ==
    pc = "run_convert2rhel returned" =>
        cmds = <<IF PaygRequested THEN "/usr/bin/convert2rhel -y --payg"
                 ELSE "/usr/bin/convert2rhel -y">>

\* C15: the environment handed to the tool holds exactly PATH with the
\* inherited value, plus CONVERT2RHEL_DISABLE_TELEMETRY with the value of
\* RHC_WORKER_CONVERT2RHEL_DISABLE_TELEMETRY if and only if that variable is
\* set; no other variable of the orchestrator is handed on.
C15_MinimalEnvironment ==
    pc = "run_convert2rhel returned" =>
        /\ DOMAIN env =
              {PATH} \cup (IF DISABLE_TELEMETRY \in DOMAIN environ
                           THEN {"CONVERT2RHEL_DISABLE_TELEMETRY"} ELSE {})
        /\ env[PATH] = environ[PATH]
        /\ DISABLE_TELEMETRY \in DOMAIN environ =>
              env["CONVERT2RHEL_DISABLE_TELEMETRY"] = environ[DISABLE_TELEMETRY]

\* run_convert2rhel returned in an environment that has both toggles and
\* HOME set: two variables were handed to the tool.
C15_Witness ==
    /\ pc = "run_convert2rhel returned"
    /\ DOMAIN environ = {PATH, PAYG, DISABLE_TELEMETRY, HOME}
    /\ environ[DISABLE_TELEMETRY] = "1"
    /\ DOMAIN env = {PATH, "CONVERT2RHEL_DISABLE_TELEMETRY"}
    /\ env["CONVERT2RHEL_DISABLE_TELEMETRY"] = "1"

\* C16: configure_host_metering runs no command unless the toggle is
\* exactly "yes"; when it is, it runs install, enable, start in that order,
\* each at most once; every command before the last one run exited 0; it
\* raises the ProcessError naming the last step run exactly when that step
\* exited non-zero, and otherwise has run all three.
C16_HostMeteringSteps ==
    pc = "configure_host_metering returned" =>
        IF ~PaygRequested
        THEN cmds = <<>> /\ raised = ""
        ELSE /\ Len(cmds) \in 1..Len(HostMeteringSteps)
             /\ cmds = SubSeq(HostMeteringSteps, 1, Len(cmds))
             /\ Len(returncodes) = Len(cmds)
             /\ \A i \in 1..(Len(cmds) - 1) : returncodes[i] = 0
             /\ IF returncodes[Len(cmds)] # 0
                THEN /\ raised = MsgHostMetering
                     /\ output.message = MsgHostMetering
                     /\ output.report = HostMeteringReports[Len(cmds)]
                ELSE /\ raised = ""
                     /\ cmds = HostMeteringSteps

\* The toggle is "yes", install succeeded and enable failed: two commands
\* were run and the ProcessError names the enable step.
C16_Witness ==
    /\ pc = "configure_host_metering returned"
    /\ PaygRequested
    /\ returncodes = <<0, 1>>
    /\ cmds = SubSeq(HostMeteringSteps, 1, 2)
    /\ output.report = "Failed to enable host-metering service"

\* The order of the tiers, least severe first.
TierOrder == <<"SUCCESS", "INFO", "WARNING", "SKIP", "OVERRIDABLE", "ERROR">>

TierRank(t) == CHOOSE i \in 1..Len(TierOrder) : TierOrder[i] = t

\* A sequence back to front.
ReverseSeq(q) == [i \in 1..Len(q) |-> q[Len(q) + 1 - i]]

\* The actions of a report in the opposite order, each with its messages
\* in the opposite order.
ReversedActions(actions) ==
    ReverseSeq([i \in 1..Len(actions) |->
                   [actions[i] EXCEPT !.messages = ReverseSeq(actions[i].messages)]])

\* C17: for a report holding at least one known tier,
\* find_highest_report_level returns the most severe known tier present
\* under SUCCESS < INFO < WARNING < SKIP < OVERRIDABLE < ERROR; the result
\* is the same for the actions and messages in the opposite order, and
\* levels outside the known tiers do not affect it.
C17_HighestTier ==
    (pc = "find_highest_report_level returned" /\ TiersOf(report_file) # {}) =>
        /\ escaped = ""
        /\ output.status \in TiersOf(report_file)
        /\ \A t \in TiersOf(report_file) : TierRank(t) <= TierRank(output.status)
        /\ find_highest_report_level(ReversedActions(report_file.actions))
              = output.status

\* Two actions: the first has result OVERRIDABLE, the second an unknown
\* result level and a message at ERROR, which was returned.
C17_Witness ==
    /\ pc = "find_highest_report_level returned"
    /\ Len(report_file.actions) = 2
    /\ report_file.actions[1].result.level = "OVERRIDABLE"
    /\ report_file.actions[2].result.level = UnknownLevel
    /\ LevelsOf(report_file.actions[2].messages) = <<"ERROR">>
    /\ output.status = "ERROR"

\* The records of a report with the id of their action: for every action
\* its messages, then its result.
RECURSIVE SourceRecords(_)
SourceRecords(actions) ==
    IF actions = <<>> THEN <<>>
    ELSE LET a == Head(actions)
         IN  [i \in 1..Len(a.messages) |->
                 [action_id |-> a.id, record |-> a.messages[i]]]
             \o <<[action_id |-> a.id, record |-> a.result]>>
             \o SourceRecords(Tail(actions))

\* The records whose level is not SUCCESS.
ReportedRecords(actions) ==
    LET NotSuccess(src) == src.record.level # "SUCCESS"
    IN  Filter(NotSuccess, SourceRecords(actions))

\* The text of a field of a record, "" when the record has no such field.
TextOf(record, field) == IF field \in DOMAIN record THEN record[field] ELSE ""

\* C18: transform_raw_data returns one finding for every message record
\* and action result whose level is not SUCCESS and none for the others:
\* as many findings as such records, each with the key
\* <action_id>::<id> and no bare id, severity the original level, an empty
\* modifiers list, and a detail block whose remediations and diagnosis are
\* one-element lists holding the original text or "".
C18_OneFindingPerRecord ==
    pc = "transform_raw_data returned" =>
        LET src == ReportedRecords(report_file.actions)
        IN  /\ Len(output.entries) = Len(src)
            /\ \A i \in 1..Len(src) :
                 LET e == output.entries[i]
                     r == src[i].record
                 IN  /\ e["key"] = src[i].action_id \o "::" \o r.id
                     /\ "id" \notin DOMAIN e
                     /\ e["severity"] = r.level
                     /\ e["modifiers"] = <<>>
                     /\ DOMAIN e["detail"] = {"remediations", "diagnosis"}
                     /\ e["detail"]["remediations"] =
                          <<[context |-> IF "remediations" \in DOMAIN r
                                         THEN r.remediations
                                         ELSE TextOf(r, "remediation")]>>
                     /\ e["detail"]["diagnosis"] =
                          <<[context |-> TextOf(r, "diagnosis")]>>

\* Two actions; the first has a result at SUCCESS and a message at INFO
\* without remediations and diagnosis; the second a message at SUCCESS: two
\* findings were returned, the first with empty detail texts.
C18_Witness ==
    /\ pc = "transform_raw_data returned"
    /\ Len(report_file.actions) = 2
    /\ report_file.actions[1].result.level = "SUCCESS"
    /\ Len(report_file.actions[1].messages) = 1
    /\ report_file.actions[1].messages[1].level = "INFO"
    /\ DOMAIN report_file.actions[1].messages[1] = {"id", "level", "description"}
    /\ Len(output.entries) = 2
    /\ output.entries[1]["key"] = "FIRST_ACTION::MESSAGE"
    /\ output.entries[1]["detail"]["diagnosis"] = <<[context |-> ""]>>
    /\ output.entries[2]["key"] = "SECOND_ACTION::RESULT"

\* The required file _create_or_restore_backup_file is called on.
Preserved == required_files[setup_next]

\* C19: from a state without ".backup" sibling, two calls of
\* _create_or_restore_backup_file on a path give the filesystem back as it
\* was: a file that existed is at its path again without ".backup"
\* sibling, and for a file that did not exist each call changes nothing.
C19_BackupRestoreInvolution ==
    fs0[Preserved].backup = Absent =>
        /\ pc = "called twice" => fs = fs0
        /\ (pc = "called once" /\ fs0[Preserved].path = Absent) => fs = fs0
        /\ (pc = "called once" /\ fs0[Preserved].path # Absent) =>
               fs[Preserved] = [path |-> Absent, backup |-> fs0[Preserved].path]

\* A system file without ".backup" sibling after two calls: back at its
\* path, no sibling.
C19_Witness ==
    /\ pc = "called twice"
    /\ fs0[Preserved] = [path |-> "system file", backup |-> Absent]
    /\ fs[Preserved] = [path |-> "system file", backup |-> Absent]

\* Some line of the log is the rollback-start marker.
HasRollbackStart(log) ==
    log # NoLog /\ \E i \in 1..Len(log) : log[i] = start_of_rollback_section

\* C20: check_for_inhibitors_in_rollback returns the empty string without
\* raising whenever no line of the log is the rollback-start marker or the
\* log cannot be read, whatever error-like lines the log holds.
C20_NoMarkerNoErrors ==
    (pc = "check_for_inhibitors_in_rollback returned"
     /\ ~HasRollbackStart(log_file)) =>
        /\ escaped = ""
        /\ rollback_errors = <<>>

\* A readable log without rollback-start marker whose first line matches
\* the error pattern and is followed by the report marker: nothing was
\* returned.
C20_Witness ==
    /\ pc = "check_for_inhibitors_in_rollback returned"
    /\ log_file # NoLog
    /\ ~HasRollbackStart(log_file)
    /\ Len(log_file) >= 2
    /\ DETECT_ERROR_IN_ROLLBACK_PATTERN(log_file[1])
    /\ HasReportMarker(log_file[2])
    /\ rollback_errors = <<>>
    /\ escaped = ""

\* The lines of a log that section 4.3 of the specification selects: those
\* matching the error vocabulary strictly after the first rollback-start
\* marker and before the first later line with the report marker, or up to
\* the end of the log when no such line follows.
ExpectedRollbackErrors(log) ==
    LET IsStart(s) == s = start_of_rollback_section
        start == FirstIndex(IsStart, log)
        later == {i \in (start + 1)..Len(log) : HasReportMarker(log[i])}
        end == IF later = {} THEN Len(log) + 1
               ELSE CHOOSE i \in later : \A j \in later : i <= j
    IN  Filter(DETECT_ERROR_IN_ROLLBACK_PATTERN, SubSeq(log, start + 1, end - 1))

\* C21: when the rollback-start marker is in the log,
\* check_for_inhibitors_in_rollback returns normally, with exactly the
\* lines matching the error vocabulary that lie after the marker and before
\* the first subsequent line holding the report marker, or up to the end
\* of the log when no report marker follows.
C21_RollbackSlice ==
    (pc = "check_for_inhibitors_in_rollback returned"
     /\ HasRollbackStart(log_file)) =>
        /\ escaped = ""
        /\ rollback_errors = ExpectedRollbackErrors(log_file)

\* C22: the status of every printed Verdict is one of the six tier names,
\* never the empty string.
C22_StatusIsTier ==
    \A i \in 1..Len(printed) : printed[i].status \in DOMAIN STATUS_CODE

\* The run is past the report reconciliation of the finally block.
Reconciled == pc \in {"cleanup", "emit", "done"}

\* A non-empty structured report was loaded and no rollback error recorded.
ReportApplies ==
    Truthy(gather_json_report(report_file)) /\ rollback_errors = <<>>

\* C23: after the reconciliation, when a non-empty structured report exists
\* and no rollback error was recorded, status is the highest tier of the
\* report and message and alert are those of that tier (alert above
\* WARNING), whichever condition was raised before; otherwise status,
\* message and alert are as the raised condition set them (the initial
\* ones when none was raised). The printed Verdict carries them.
C23_StatusFromReport ==
    /\ Reconciled =>
         IF ReportApplies
         THEN \E t \in DOMAIN STATUS_CODE :
                /\ HighestTierIs(report_file, t)
                /\ output.status = t
                /\ output.alert = (TierRank(t) > TierRank("WARNING"))
                /\ output.message = IF TierRank(t) > TierRank("WARNING")
                                    THEN MsgCannotProceed ELSE MsgConverted
         ELSE /\ output.status = IF raised = "" THEN "" ELSE "ERROR"
              /\ output.alert = (raised # "")
              /\ output.message = raised
    /\ pc = "done" =>
         /\ Verdict.status = output.status
         /\ Verdict.alert = output.alert
         /\ Verdict.message = output.message

\* The tool exited 1, the analysis-failed condition was raised, and the
\* report's highest tier WARNING replaced its status and alert in the
\* printed Verdict.
C23_Witness ==
    /\ pc = "done"
    /\ returncodes = <<1>>
    /\ raised = MsgAnalysisFailed
    /\ HighestTierIs(report_file, "WARNING")
    /\ Verdict.status = "WARNING"
    /\ Verdict.alert = FALSE
    /\ Verdict.message = MsgConverted

\* C24: a printed Verdict carries flattened findings (report_json not null)
\* only when the tool did not succeed and no rollback error was recorded;
\* when the tool exited 0 or rollback errors were recorded, report_json is
\* null.
C24_FindingsOnlyOnFailure ==
    /\ (conversion_successful \/ rollback_errors # <<>>) =>
           /\ output.entries = NoEntries
           /\ \A i \in 1..Len(printed) : printed[i].report_json = JsonNull
    /\ \A i \in 1..Len(printed) :
           printed[i].report_json # JsonNull =>
               /\ ~conversion_successful
               /\ rollback_errors = <<>>
               /\ printed[i].report_json.entries = transform_raw_data(report_file)

\* The tool exited 1 without rollback errors and left a report with a
\* result at ERROR: the Verdict carries its finding.
C24_Witness ==
    /\ pc = "done"
    /\ returncodes = <<1>>
    /\ rollback_errors = <<>>
    /\ HighestTierIs(report_file, "ERROR")
    /\ Verdict.report_json # JsonNull
    /\ Len(Verdict.report_json.entries) >= 1

\* The positions of main() in the order of the steps.
RunSteps ==
    <<"archive", "eligibility", "setup", "precheck", "install", "execute",
      "evaluate", "remediate", "finalize", "cleanup", "emit", "done", "crashed">>

StepRank(position) == CHOOSE i \in 1..Len(RunSteps) : RunSteps[i] = position

\* The steps of the try block after the eligibility check.
GuardedSteps == {"setup", "precheck", "install", "execute", "evaluate", "remediate"}

\* C25: the steps of a run are entered only in the order eligibility,
\* setup, precheck, install, execute, rollback detection, remediation,
\* reconciliation, cleanup, each at most once and without retry; a step of
\* the try block is entered only from the step right before it and with no
\* condition raised; the tool is run only once, after setup of every
\* required file, precheck and install; remediation is entered only after
\* the tool exited 0.
C25_StepOrder ==
    [][/\ pc' # pc => StepRank(pc') > StepRank(pc)
       /\ pc' = pc => (pc = "setup" /\ setup_next' = setup_next + 1)
       /\ (pc' # pc /\ pc' \notin {"finalize", "crashed"}) =>
              StepRank(pc') = StepRank(pc) + 1
       /\ pc' \in GuardedSteps => raised' = ""
       /\ pc' = "precheck" =>
              \A f \in Files : touched'[f] /\ fs'[f].path = Downloaded
       /\ cmds' # cmds /\ cmds'[Len(cmds')] = ToolCommand =>
              /\ pc = "execute"
              /\ ~Ran(ToolCommand)
              /\ raised = ""
              /\ \A f \in Files : touched[f]
              /\ Ran("rpm -Va convert2rhel")
              /\ Ran("yum install convert2rhel") \/ Ran("yum update convert2rhel")
       /\ pc' = "remediate" => (pc = "evaluate" /\ returncodes' = <<0>>)
       /\ pc' = "cleanup" => (pc = "finalize" /\ cleanup_runs = 0)
      ]_vars

\* A run through every step: the tool exited 0, the inventory was updated,
\* cleanup ran and the Verdict was printed.
C25_Witness ==
    /\ pc = "done"
    /\ raised = ""
    /\ returncodes = <<0>>
    /\ Ran(ToolCommand)
    /\ Ran("insights-client")
    /\ cleanup_runs = 1
    /\ Len(printed) = 1

\* Number of yum undo commands issued for a transaction id.
UndoCount(id) ==
    Cardinality({i \in 1..Len(cmds) : cmds[i] = "yum history undo -y " \o id})

\* C26: at the end of a run the handle registered by its install has been
\* consumed exactly once: either it was removed from the pending-undo set
\* (all required files are kept and no yum undo was issued for it), or it
\* stayed pending and exactly one yum undo was issued for it (and no
\* required file is kept).
C26_HandleConsumedOnce ==
    (Terminated /\ convert2rhel_installed) =>
        \/ /\ transaction_id \notin YUM_TRANSACTIONS_TO_UNDO
           /\ \A f \in Files : keep[f]
           /\ UndoCount(transaction_id) = 0
        \/ /\ transaction_id \in YUM_TRANSACTIONS_TO_UNDO
           /\ \A f \in Files : ~keep[f]
           /\ UndoCount(transaction_id) = 1

\* C27: cleanup with pending transaction ids raises nothing whatever the
\* exit codes of the yum undo commands are: it issues one undo for every
\* pending id, leaves the Verdict as it is and goes on to print it, so the
\* printed Verdict is the one printed when every undo succeeds.
C27_FailedUndoOnlyLogged ==
    [][/\ (pc = "cleanup" /\ None \notin YUM_TRANSACTIONS_TO_UNDO) =>
             /\ pc' = "emit"
             /\ escaped' = ""
             /\ output' = output
             /\ Len(undo_returncodes') = Cardinality(YUM_TRANSACTIONS_TO_UNDO)
             /\ \A id \in YUM_TRANSACTIONS_TO_UNDO : (UndoCount(id))' = 1
       /\ pc = "emit" =>
             /\ pc' = "done"
             /\ printed' = <<to_dict(output)>>
      ]_vars

\* Two ids were pending, both yum undo commands exited non-zero, both were
\* issued and the Verdict was printed as main() held it.
C27_Witness ==
    /\ pc = "done"
    /\ YUM_TRANSACTIONS_TO_UNDO = PendingIds
    /\ undo_returncodes = <<1, 1>>
    /\ \A id \in PendingIds : UndoCount(id) = 1
    /\ escaped = ""
    /\ printed = <<to_dict(output)>>
    /\ output.status = "ERROR"

\* C28: when the tool exited 0 the content of the log does not influence
\* the outcome: the rollback detection neither raises nor changes the
\* Verdict, and the reconciliation yields the Verdict, the keep flags and the
\* pending-undo set it yields when no rollback error was recorded.
C28_LogIgnoredOnSuccess ==
    [][/\ (pc = "evaluate" /\ conversion_successful) =>
             /\ pc' = "remediate"
             /\ output' = output
             /\ raised' = raised
       /\ (pc = "finalize" /\ conversion_successful) =>
             LET r == finalize_block(output, gather_json_report(report_file),
                                     <<>>, conversion_successful,
                                     convert2rhel_installed, transaction_id,
                                     YUM_TRANSACTIONS_TO_UNDO, keep, txt_file)
             IN  /\ output' = r.output
                 /\ keep' = r.keep
                 /\ YUM_TRANSACTIONS_TO_UNDO' = r.undo
                 /\ escaped' = r.raised
      ]_vars

====
